---- MODULE Spec2Model ----
(***************************************************************************)
(* The billing check-in form (BillingCheckInForm) in its two revisions:    *)
(*   rev "A": src/unnamed/part_000 (non-paying override, reset effect,     *)
(*            last-visit information, no waiver),                          *)
(*   rev "B": src/src/billing-form/billing-checkin-form.component.tsx      *)
(*            (recency waiver, no reset effect).                           *)
(* A nullable JavaScript value is a sequence of length 0 (null/undefined)  *)
(* or 1 (the value).  A JavaScript number that may be NaN is a record      *)
(* [nan, v].  Every action is one event of the component together with     *)
(* the re-render and the effects that event causes.                        *)
(***************************************************************************)
EXTENDS Integers, Sequences, FiniteSets, TLC

VARIABLES
    rev,                   \* which revision of the component is mounted
    patientUuid,           \* prop patientUuid
    swrCache,              \* useSWR's cache: key -> <<>> or <<[data, for]>>
    lookups,               \* per patient: "none", "requested" (a lookup was issued for it)
                           \* or "late" (a response for it arrived while superseded)
    visitDataFor,          \* the patient whose lookup produced visitData, "none" if undefined
    categoryConcepts,      \* useConfig().categoryConcepts.nonPayingDetails ("undefined" if not configured)
    isLoading,             \* isLoadingLineItems || isLoadingCashPoints
    lineItems,             \* useBillableItems().lineItems (the catalog)
    cashPoints,            \* useCashPoint().cashPoints
    visitData,             \* useSWR(...).data: <<>> (undefined) or <<bundle>>
    lastVisitInfo,         \* rev A: memoised lastVisitInfo, <<>> is null
    isWaived,              \* rev B: memoised isWaived
    attributes,            \* useState([])
    attributesRef,         \* rev A: attributesRef.current
    paymentMethod,         \* useState: a mode uuid, "null" or "undefined"
    selectedBillableItem,  \* rev A: useState(null), <<>> is null
    extraVisitInfo,        \* host: argument of the last setExtraVisitInfo call, <<>> before any call
    prevPublished,         \* host: kind of the draft of the call before the last one
    createCalls,           \* number of createPatientBill calls made
    lastCall,              \* the last createPatientBill call: <<>> or <<[payload, ok]>>
    snackbars,             \* number of showSnackbar calls made
    lastSnackbar,          \* kind of the last showSnackbar call, "none" before any
    renderError            \* a render of the component threw

vars == <<rev, patientUuid, swrCache, lookups, visitDataFor, categoryConcepts,
         isLoading, lineItems, cashPoints, visitData,
          lastVisitInfo, isWaived, attributes, attributesRef, paymentMethod,
          selectedBillableItem, extraVisitInfo, prevPublished, createCalls,
          lastCall, snackbars, lastSnackbar, renderError>>

-----------------------------------------------------------------------------
(* Bounds of the model *)

\* the value of new Date().getTime() when a visit memo is computed, in ms
Now == 1000000000

\* number of commit invocations by the host that are followed
MaxCommits == 2

-----------------------------------------------------------------------------
(* Program constants *)

PENDING_PAYMENT_STATUS == "PENDING"

\* 1000 * 60 * 60 * 24
DayMs == 1000 * 60 * 60 * 24

\* diffDays <= 7
WaiverDays == 7

Patients == {"patient-1", "patient-2"}

-----------------------------------------------------------------------------
(* Input domains *)

Modes == {"modeA", "modeB"}

\* values the visit-attributes sub-form passes to setPaymentMethod
PaymentInputs == Modes \cup {"null"}

\* p.paymentMode?.uuid is "undefined" for a price without payment mode
Price(u, amount, mode) == [uuid |-> u, price |-> amount, paymentMode |-> mode]

Service(u, prices) == [uuid |-> u, servicePrices |-> prices]

S1 == Service("s1", <<Price("pa", "10", "modeA"), Price("pb", "20", "modeB")>>)
S2 == Service("s2", <<Price("pc", "15.00", "modeA")>>)
S3 == Service("s3", <<>>)
S4 == Service("s4", <<Price("pd", "5.00", "undefined"), Price("pe", "7.50", "modeB")>>)

AllServices == {S1, S2, S3, S4}

\* what useBillableItems and useCashPoint deliver
Loads == { [lineItems |-> <<S1, S2, S3, S4>>, cashPoints |-> <<"cp1", "cp2">>],
           [lineItems |-> <<S4, S1>>, cashPoints |-> <<>>] }

Attr(t, v) == [attributeType |-> t, value |-> v]

AttributeSets == { <<>>, <<Attr("category", "np")>>, <<Attr("category", "paying")>> }

ConfigValues == {"np", "undefined"}

\* period.start of the fetched Encounter
StartAt(ms) == [kind |-> "date", ms |-> ms]
StartMissing == [kind |-> "missing", ms |-> 0]
StartMalformed == [kind |-> "malformed", ms |-> 0]

Resource(hasPeriod, start) == [hasPeriod |-> hasPeriod, start |-> start]

Bundle(entries) == [entry |-> entries]

EmptyBundle == Bundle(<<>>)
VisitAgo(ms) == Bundle(<<Resource(TRUE, StartAt(Now - ms))>>)
VisitNoPeriod == Bundle(<<Resource(FALSE, StartMissing)>>)
VisitNoStart == Bundle(<<Resource(TRUE, StartMissing)>>)
VisitMalformed == Bundle(<<Resource(TRUE, StartMalformed)>>)

\* responses of the visit lookup followed in the event model
VisitResponses == { EmptyBundle, VisitAgo(3 * DayMs), VisitNoPeriod, VisitMalformed }

-----------------------------------------------------------------------------
(* JavaScript helpers *)

NaN == [nan |-> TRUE, v |-> 0]
Num(n) == [nan |-> FALSE, v |-> n]

Abs(x) == IF x < 0 THEN -x ELSE x

\* Math.ceil(a / b) for a >= 0, b > 0
Ceil(a, b) == (a + b - 1) \div b

\* new Date(start).getTime(): NaN for undefined or an unparseable string
GetTime(start) == IF start.kind = "date" THEN Num(start.ms) ELSE NaN

Falsy(s) == s \in {"null", "undefined", ""}

-----------------------------------------------------------------------------
(* Derived values of a render *)

\* diffDays = Math.ceil(Math.abs(today - visitDate) / (1000*60*60*24))
DiffDays(start) ==
    LET t == GetTime(start)
    IN  IF t.nan THEN NaN ELSE Num(Ceil(Abs(Now - t.v), DayMs))

\* !visitData?.entry?.length
NoEntry(vd) == vd = <<>> \/ Len(vd[1].entry) = 0

\* resource.period.start with resource.period undefined is a TypeError
VisitThrows(vd) == ~NoEntry(vd) /\ ~vd[1].entry[1].hasPeriod

\* rev A: the lastVisitInfo memo (type, location and dateFormatted are
\* display strings derived from the same resource and are not followed)
ComputeLastVisitInfo(vd) ==
    IF NoEntry(vd) THEN <<>>
    ELSE <<[diffDays |-> DiffDays(vd[1].entry[1].start)]>>

\* variant: the day count is rounded down instead of up
ComputeIsWaived_Floor(vd) ==
    IF NoEntry(vd) THEN FALSE
    ELSE LET t == GetTime(vd[1].entry[1].start)
         IN  ~t.nan /\ (Abs(Now - t.v) \div DayMs) <= WaiverDays

\* rev B: the isWaived memo, diffDays <= 7 (false for NaN)
ComputeIsWaived(vd) ==
    IF NoEntry(vd) THEN FALSE
    ELSE LET d == DiffDays(vd[1].entry[1].start)
         IN  ~d.nan /\ d.v <= WaiverDays

\* variant: only the first attribute is compared
ComputeIsNonPaying_FirstOnly(attrs, cfg) ==
    IF Falsy(cfg) \/ Len(attrs) = 0 THEN FALSE
    ELSE attrs[1].value = cfg

\* rev A: the isNonPaying memo
ComputeIsNonPaying(attrs, cfg) ==
    IF Falsy(cfg) \/ Len(attrs) = 0 THEN FALSE
    ELSE \E i \in 1..Len(attrs) : attrs[i].value = cfg

\* e.servicePrices.some((p) => p.paymentMode?.uuid === paymentMethod)
HasPriceFor(e, pm) ==
    \E i \in 1..Len(e.servicePrices) : e.servicePrices[i].paymentMode = pm

\* variant: every service is offered once a payment mode is set
LineListA_NoFilter(items, pm, nonPaying) ==
    IF nonPaying THEN <<>>
    ELSE IF Falsy(pm) \/ Len(items) = 0 THEN <<>>
    ELSE items

\* variant: the filter does not look at isNonPaying
LineListA_IgnoreNonPaying(items, pm, nonPaying) ==
    IF Falsy(pm) \/ Len(items) = 0 THEN <<>>
    ELSE SelectSeq(items, LAMBDA e : HasPriceFor(e, pm))

\* rev A: the lineList memo
LineListA(items, pm, nonPaying) ==
    IF nonPaying THEN <<>>
    ELSE IF Falsy(pm) \/ Len(items) = 0 THEN <<>>
    ELSE SelectSeq(items, LAMBDA e : HasPriceFor(e, pm))

\* variant: only the first price of a service is compared
LineListB_FirstPrice(items, pm) ==
    IF ~Falsy(pm)
    THEN SelectSeq(items, LAMBDA e :
            /\ Len(e.servicePrices) > 0
            /\ e.servicePrices[1].paymentMode = pm)
    ELSE <<>>

\* rev B: let lineList = []; if (paymentMethod) lineList = lineItems.filter(...)
LineListB(items, pm) ==
    IF ~Falsy(pm)
    THEN SelectSeq(items, LAMBDA e :
            \E i \in 1..Len(e.servicePrices) :
                /\ e.servicePrices[i].paymentMode # "undefined"
                /\ e.servicePrices[i].paymentMode = pm)
    ELSE <<>>

isNonPaying == ComputeIsNonPaying(attributes, categoryConcepts)

lineList ==
    IF rev = "A" THEN LineListA(lineItems, paymentMethod, isNonPaying)
    ELSE LineListB(lineItems, paymentMethod)

\* rev A renders the Dropdown only when lineList.length > 0, rev B always
DropdownRendered == rev = "B" \/ Len(lineList) > 0

-----------------------------------------------------------------------------
(* The bill payload builder *)

\* variant: no fallback to the first price
PriceForPaymentMode_NoFallback(item, pm) ==
    LET ps == item.servicePrices
        hit == {i \in 1..Len(ps) : ps[i].paymentMode = pm}
    IN  IF hit # {} THEN <<ps[CHOOSE i \in hit : \A j \in hit : i <= j]>>
        ELSE <<>>

\* servicePrices.find((p) => p.paymentMode?.uuid === paymentMethod) || servicePrices[0]
PriceForPaymentMode(item, pm) ==
    LET ps == item.servicePrices
        hit == {i \in 1..Len(ps) : ps[i].paymentMode = pm}
    IN  IF hit # {} THEN <<ps[CHOOSE i \in hit : \A j \in hit : i <= j]>>
        ELSE IF Len(ps) > 0 THEN <<ps[1]>>
        ELSE <<>>

\* rev A: price: priceForPaymentMode ? priceForPaymentMode.price : '0.000'
LinePriceA(pfm) == IF pfm # <<>> THEN pfm[1].price ELSE "0.000"

\* variant: the waiver is not applied
LinePriceB_NoWaiver(pfm, waived) ==
    IF pfm # <<>> THEN pfm[1].price ELSE "0.00"

\* variant: the waiver zeroes the price only when no price was resolved
LinePriceB_WaiveDefaultOnly(pfm, waived) ==
    IF pfm # <<>> THEN pfm[1].price ELSE IF waived THEN "0.000" ELSE "0.00"

\* rev B: price: isWaived ? '0.000' : priceForPaymentMode ? priceForPaymentMode.price : '0.00'
LinePriceB(pfm, waived) ==
    IF waived THEN "0.000" ELSE IF pfm # <<>> THEN pfm[1].price ELSE "0.00"

\* variant: the line item order is counted from 1
LineItem_OrderOne(item, pfm, amount) ==
    [ billableService |-> item.uuid,
      quantity        |-> 1,
      price           |-> amount,
      priceName       |-> "Default",
      priceUuid       |-> IF pfm # <<>> THEN pfm[1].uuid ELSE "",
      lineItemOrder   |-> 1,
      paymentStatus   |-> PENDING_PAYMENT_STATUS ]

LineItem(item, pfm, amount) ==
    [ billableService |-> item.uuid,
      quantity        |-> 1,
      price           |-> amount,
      priceName       |-> "Default",
      priceUuid       |-> IF pfm # <<>> THEN pfm[1].uuid ELSE "",
      lineItemOrder   |-> 0,
      paymentStatus   |-> PENDING_PAYMENT_STATUS ]

CreateBillPayload(r, item, pm, cps, waived) ==
    LET pfm == PriceForPaymentMode(item, pm)
    IN  [ lineItems |-> << LineItem(item, pfm,
                              IF r = "A" THEN LinePriceA(pfm)
                              ELSE LinePriceB(pfm, waived)) >>,
          cashPoint |-> IF Len(cps) > 0 THEN cps[1] ELSE "",
          patient   |-> patientUuid,
          status    |-> PENDING_PAYMENT_STATUS,
          payments  |-> <<>> ]

-----------------------------------------------------------------------------
(* The host side of setExtraVisitInfo *)

\* the argument of setExtraVisitInfo; the commit callback is the closure
\* () => handleCreateExtraVisitInfo(createBillPayload), kept as its bound payload
DraftInfo(payload, attrs) ==
    [ createBillPayload          |-> <<payload>>,
      handleCreateExtraVisitInfo |-> <<[bound |-> payload]>>,
      attributes                 |-> attrs ]

NullInfo(attrs) ==
    [ createBillPayload          |-> <<>>,
      handleCreateExtraVisitInfo |-> <<>>,
      attributes                 |-> attrs ]

\* the draft the host holds: <<>> when none was published or null was published
Draft == IF extraVisitInfo = <<>> THEN <<>> ELSE extraVisitInfo[1].createBillPayload

Kind(info) ==
    IF info = <<>> THEN "none"
    ELSE IF info[1].createBillPayload = <<>> THEN "Empty" ELSE "Drafted"

\* one call setExtraVisitInfo(info)
Publish(info) ==
    /\ extraVisitInfo' = <<info>>
    /\ prevPublished' = Kind(extraVisitInfo)

\* the key of the visit lookup: the encounter URL, which holds patientUuid
SwrKey_NoPatient(p) == "encounter"

SwrKey(p) == p

SwrKeys == {SwrKey(p) : p \in Patients}

\* what useSWR hands to the render for a cache entry
CachedData(hit) == IF hit = <<>> THEN <<>> ELSE <<hit[1].data>>

CachedFor(hit) == IF hit = <<>> THEN "none" ELSE hit[1].for

-----------------------------------------------------------------------------
(* Events *)

\* state after the first render and its effects: rev A runs the
\* attributesRef effect and the reset effect on mount, rev B publishes nothing
Init ==
    /\ rev \in {"A", "B"}
    /\ categoryConcepts \in (IF rev = "A" THEN ConfigValues ELSE {"undefined"})
    /\ isLoading = TRUE
    /\ lineItems = <<>>
    /\ cashPoints = <<>>
    /\ patientUuid = "patient-1"
    /\ swrCache = [k \in SwrKeys |-> <<>>]
    /\ lookups = [p \in Patients |-> IF p = patientUuid THEN "requested" ELSE "none"]
    /\ visitDataFor = "none"
    /\ visitData = <<>>
    /\ lastVisitInfo = <<>>
    /\ isWaived = FALSE
    /\ attributes = <<>>
    /\ attributesRef = <<>>
    /\ paymentMethod = (IF rev = "A" THEN "null" ELSE "undefined")
    /\ selectedBillableItem = <<>>
    /\ extraVisitInfo = (IF rev = "A" THEN <<NullInfo(<<>>)>> ELSE <<>>)
    /\ prevPublished = "none"
    /\ createCalls = 0
    /\ lastCall = <<>>
    /\ snackbars = 0
    /\ lastSnackbar = "none"
    /\ renderError = FALSE

\* rev A: the effect on [paymentMethod, isNonPaying, setExtraVisitInfo];
\* attributesRef.current was already updated by the effect declared before it
ResetEffect(refNow) ==
    /\ Publish(NullInfo(refNow))
    /\ selectedBillableItem' = <<>>

\* the effects of a render of rev A in which depsChanged tells whether
\* paymentMethod or isNonPaying differ from the previous render
\* (the host's setExtraVisitInfo, the third dependency, keeps its identity:
\* a host handing over a new function on each of its renders would make the
\* effect publish on every render)
RunEffects(depsChanged, refNow) ==
    IF rev = "A" /\ depsChanged
    THEN ResetEffect(refNow)
    ELSE UNCHANGED <<selectedBillableItem, extraVisitInfo, prevPublished>>

\* useBillableItems / useCashPoint deliver data (first load or revalidation)
ResourcesLoaded(load) ==
    /\ ~renderError
    /\ isLoading' = FALSE
    /\ lineItems' = load.lineItems
    /\ cashPoints' = load.cashPoints
    /\ UNCHANGED <<rev, patientUuid, lookups, categoryConcepts, visitData,
                   visitDataFor, swrCache, lastVisitInfo, isWaived, attributes,
                   attributesRef, paymentMethod, selectedBillableItem,
                   extraVisitInfo, prevPublished, createCalls, lastCall, snackbars,
                   lastSnackbar, renderError>>

\* the render that follows a change of visitData to vd: the memo on
\* [visitData] is recomputed, which throws when the entry has no period
VisitMemo(vd) ==
    IF VisitThrows(vd)
    THEN /\ renderError' = TRUE
         /\ UNCHANGED <<lastVisitInfo, isWaived>>
    ELSE /\ renderError' = FALSE
         /\ lastVisitInfo' = (IF rev = "A" THEN ComputeLastVisitInfo(vd) ELSE <<>>)
         /\ isWaived' = (IF rev = "B" THEN ComputeIsWaived(vd) ELSE FALSE)

\* the lookup issued for patient p resolves with bundle v: useSWR stores it
\* under the key of p and re-renders the component only when that key is
\* the one of the current render
DeliverVisit(p, v) ==
    /\ swrCache' = [swrCache EXCEPT ![SwrKey(p)] = <<[data |-> v, for |-> p]>>]
    /\ IF SwrKey(p) = SwrKey(patientUuid)
       THEN /\ visitData' = <<v>>
            /\ visitDataFor' = p
            /\ VisitMemo(<<v>>)
       ELSE UNCHANGED <<visitData, visitDataFor, lastVisitInfo, isWaived, renderError>>

\* the visit lookup of the current patient resolves with bundle v
VisitDataResolved(v) ==
    /\ ~renderError
    /\ DeliverVisit(patientUuid, v)
    /\ UNCHANGED <<rev, patientUuid, lookups, categoryConcepts, isLoading,
                   lineItems, cashPoints, attributes, attributesRef, paymentMethod,
                   selectedBillableItem, extraVisitInfo, prevPublished,
                   createCalls, lastCall, snackbars, lastSnackbar>>

\* a lookup issued for an earlier patient resolves after the prop has changed
StaleVisitResolved(p, v) ==
    /\ ~renderError
    /\ p # patientUuid
    /\ lookups[p] # "none"
    /\ lookups' = [lookups EXCEPT ![p] = "late"]
    /\ DeliverVisit(p, v)
    /\ UNCHANGED <<rev, patientUuid, categoryConcepts, isLoading,
                   lineItems, cashPoints, attributes, attributesRef, paymentMethod,
                   selectedBillableItem, extraVisitInfo, prevPublished,
                   createCalls, lastCall, snackbars, lastSnackbar>>

\* the host re-renders the sub-form with another patientUuid: useSWR changes
\* key, returns what its cache holds for the new key (undefined if nothing)
\* and issues the lookup for it; no dependency of the reset effect changes
PatientChanged(p) ==
    /\ ~renderError
    /\ p # patientUuid
    /\ patientUuid' = p
    /\ lookups' = [lookups EXCEPT ![p] = IF @ = "none" THEN "requested" ELSE @]
    /\ visitData' = CachedData(swrCache[SwrKey(p)])
    /\ visitDataFor' = CachedFor(swrCache[SwrKey(p)])
    /\ VisitMemo(visitData')
    /\ UNCHANGED <<rev, swrCache, categoryConcepts, isLoading,
                   lineItems, cashPoints, attributes, attributesRef, paymentMethod,
                   selectedBillableItem, extraVisitInfo, prevPublished,
                   createCalls, lastCall, snackbars, lastSnackbar>>

\* the sub-form is rendered once loading has ended
FormRendered == ~isLoading /\ ~renderError

\* variant: the reset effect runs before attributesRef.current is updated
SetAttributes_StaleRef(a) ==
    /\ FormRendered
    /\ attributes' = a
    /\ attributesRef' = (IF rev = "A" THEN a ELSE attributesRef)
    /\ RunEffects(ComputeIsNonPaying(a, categoryConcepts) # isNonPaying, attributesRef)
    /\ UNCHANGED <<rev, patientUuid, lookups, categoryConcepts, isLoading,
                   lineItems, cashPoints, visitData, visitDataFor, swrCache,
                   lastVisitInfo, isWaived, paymentMethod, createCalls, lastCall,
                   snackbars, lastSnackbar, renderError>>

\* variant: isNonPaying is missing from the reset effect's dependencies
SetAttributes_NoReset(a) ==
    /\ FormRendered
    /\ attributes' = a
    /\ attributesRef' = (IF rev = "A" THEN a ELSE attributesRef)
    /\ UNCHANGED <<rev, patientUuid, lookups, categoryConcepts, isLoading,
                   lineItems, cashPoints, visitData, visitDataFor, swrCache,
                   lastVisitInfo, isWaived, paymentMethod, selectedBillableItem,
                   extraVisitInfo, prevPublished, createCalls, lastCall, snackbars,
                   lastSnackbar, renderError>>

\* VisitAttributesForm calls setAttributes(a)
SetAttributes(a) ==
    /\ FormRendered
    /\ attributes' = a
    /\ attributesRef' = (IF rev = "A" THEN a ELSE attributesRef)
    /\ RunEffects(ComputeIsNonPaying(a, categoryConcepts) # isNonPaying, a)
    /\ UNCHANGED <<rev, patientUuid, lookups, categoryConcepts, isLoading,
                   lineItems, cashPoints, visitData, visitDataFor, swrCache,
                   lastVisitInfo, isWaived, paymentMethod, createCalls, lastCall,
                   snackbars, lastSnackbar, renderError>>

\* variant: paymentMethod is missing from the reset effect's dependencies
SetPaymentMethod_NoReset(p) ==
    /\ FormRendered
    /\ paymentMethod' = p
    /\ UNCHANGED <<rev, patientUuid, lookups, categoryConcepts, isLoading,
                   lineItems, cashPoints, visitData, visitDataFor, swrCache,
                   lastVisitInfo, isWaived, attributes, attributesRef,
                   selectedBillableItem, extraVisitInfo, prevPublished,
                   createCalls, lastCall, snackbars, lastSnackbar, renderError>>

\* VisitAttributesForm calls setPaymentMethod(p)
SetPaymentMethod(p) ==
    /\ FormRendered
    /\ paymentMethod' = p
    /\ RunEffects(p # paymentMethod, attributesRef)
    /\ UNCHANGED <<rev, patientUuid, lookups, categoryConcepts, isLoading,
                   lineItems, cashPoints, visitData, visitDataFor, swrCache,
                   lastVisitInfo, isWaived, attributes, attributesRef, createCalls,
                   lastCall, snackbars, lastSnackbar, renderError>>

\* the body of handleBillingService({ selectedItem: item })
SelectEffect(item) ==
    /\ selectedBillableItem' = (IF rev = "A" THEN <<item>> ELSE selectedBillableItem)
    /\ Publish(DraftInfo(CreateBillPayload(rev, item, paymentMethod, cashPoints, isWaived),
                         attributes))
    /\ UNCHANGED <<rev, patientUuid, lookups, categoryConcepts, isLoading,
                   lineItems, cashPoints, visitData, visitDataFor, swrCache,
                   lastVisitInfo, isWaived, attributes, attributesRef,
                   paymentMethod, createCalls, lastCall, snackbars, lastSnackbar,
                   renderError>>

\* the user picks item in the Dropdown: onChange={handleBillingService};
\* the Dropdown offers the items of lineList
HandleBillingService(item) ==
    /\ FormRendered
    /\ DropdownRendered
    /\ \E i \in 1..Len(lineList) : lineList[i] = item
    /\ SelectEffect(item)

\* variant: the catch branch shows no notification
Commit_SilentFailure(ok) ==
    /\ extraVisitInfo # <<>>
    /\ extraVisitInfo[1].handleCreateExtraVisitInfo # <<>>
    /\ createCalls < MaxCommits
    /\ createCalls' = createCalls + 1
    /\ lastCall' = <<[payload |-> extraVisitInfo[1].handleCreateExtraVisitInfo[1].bound,
                      ok |-> ok]>>
    /\ snackbars' = (IF ok THEN snackbars + 1 ELSE snackbars)
    /\ lastSnackbar' = (IF ok THEN "success" ELSE lastSnackbar)
    /\ UNCHANGED <<rev, patientUuid, lookups, categoryConcepts, isLoading,
                   lineItems, cashPoints, visitData, visitDataFor, swrCache,
                   lastVisitInfo, isWaived, attributes, attributesRef,
                   paymentMethod, selectedBillableItem, extraVisitInfo,
                   prevPublished, renderError>>

\* variant: the catch branch also clears the draft
Commit_ClearOnFailure(ok) ==
    /\ extraVisitInfo # <<>>
    /\ extraVisitInfo[1].handleCreateExtraVisitInfo # <<>>
    /\ createCalls < MaxCommits
    /\ createCalls' = createCalls + 1
    /\ lastCall' = <<[payload |-> extraVisitInfo[1].handleCreateExtraVisitInfo[1].bound,
                      ok |-> ok]>>
    /\ snackbars' = snackbars + 1
    /\ lastSnackbar' = (IF ok THEN "success" ELSE "error")
    /\ IF ok THEN UNCHANGED <<extraVisitInfo, prevPublished>>
             ELSE Publish(NullInfo(extraVisitInfo[1].attributes))
    /\ UNCHANGED <<rev, patientUuid, lookups, categoryConcepts, isLoading,
                   lineItems, cashPoints, visitData, visitDataFor, swrCache,
                   lastVisitInfo, isWaived, attributes, attributesRef,
                   paymentMethod, selectedBillableItem, renderError>>

\* the host invokes the commit callback it was handed; createPatientBill
\* resolves (ok) or rejects (~ok)
Commit(ok) ==
    /\ extraVisitInfo # <<>>
    /\ extraVisitInfo[1].handleCreateExtraVisitInfo # <<>>
    /\ createCalls < MaxCommits
    /\ createCalls' = createCalls + 1
    /\ lastCall' = <<[payload |-> extraVisitInfo[1].handleCreateExtraVisitInfo[1].bound,
                      ok |-> ok]>>
    /\ snackbars' = snackbars + 1
    /\ lastSnackbar' = (IF ok THEN "success" ELSE "error")
    /\ UNCHANGED <<rev, patientUuid, lookups, categoryConcepts, isLoading,
                   lineItems, cashPoints, visitData, visitDataFor, swrCache,
                   lastVisitInfo, isWaived, attributes, attributesRef,
                   paymentMethod, selectedBillableItem, extraVisitInfo,
                   prevPublished, renderError>>

Next ==
    \/ \E load \in Loads : ResourcesLoaded(load)
    \/ \E v \in VisitResponses : VisitDataResolved(v)
    \/ \E a \in AttributeSets : SetAttributes(a)
    \/ \E p \in PaymentInputs : SetPaymentMethod(p)
    \/ \E item \in AllServices : HandleBillingService(item)
    \/ \E ok \in BOOLEAN : Commit(ok)

Spec == Init /\ [][Next]_vars

-----------------------------------------------------------------------------
(* The sub-form kept mounted while the host moves to another patient: the  *)
(* visit lookups of both patients, in any order of resolution, next to the *)
(* selection of a service.                                                 *)

PatientNext ==
    \/ \E load \in Loads : ResourcesLoaded(load)
    \/ \E v \in VisitResponses : VisitDataResolved(v)
    \/ \E p \in Patients, v \in VisitResponses : StaleVisitResolved(p, v)
    \/ \E p \in Patients : PatientChanged(p)
    \/ \E p \in PaymentInputs : SetPaymentMethod(p)
    \/ \E item \in AllServices : HandleBillingService(item)

SpecPatient == Init /\ [][PatientNext]_vars

-----------------------------------------------------------------------------
(* The pure parts (visit memo, catalog filter, price resolution, payload   *)
(* builder) applied to inputs drawn from wider sets than the Dropdown and  *)
(* the event model reach.                                                  *)

FnModes == Modes \cup {"modeC"}

FnAttributeSets ==
    AttributeSets \cup { <<Attr("category", "paying"), Attr("details", "np")>> }

\* a service with two prices for the same payment mode
S5 == Service("s5", <<Price("pf", "30", "modeB"), Price("pg", "40", "modeA"),
                      Price("ph", "50", "modeA")>>)

FnServices == AllServices \cup {S5}

FnCatalogs == { <<S1, S2, S3, S4>>, <<S4, S1>>, <<S5, S3, S2, S1>>, <<>> }

\* distances |now - start| in ms around the day-count threshold
FnDistances ==
    { 0, 1, DayMs, 3 * DayMs, WaiverDays * DayMs - 1, WaiverDays * DayMs,
      WaiverDays * DayMs + 1, WaiverDays * DayMs + 1000, 8 * DayMs }

\* the visit may also start after now (Math.abs)
FnVisitResponses ==
    { VisitAgo(d) : d \in FnDistances } \cup { VisitAgo(0 - d) : d \in FnDistances }
        \cup { EmptyBundle, VisitNoPeriod, VisitNoStart, VisitMalformed }

FnInit ==
    /\ rev \in {"A", "B"}
    /\ categoryConcepts \in (IF rev = "A" THEN ConfigValues ELSE {"undefined"})
    /\ isLoading = FALSE
    /\ lineItems \in FnCatalogs
    /\ cashPoints \in {<<>>, <<"cp1", "cp2">>}
    /\ patientUuid = "patient-1"
    /\ swrCache = [k \in SwrKeys |-> <<>>]
    /\ lookups = [p \in Patients |-> IF p = patientUuid THEN "requested" ELSE "none"]
    /\ visitDataFor = "none"
    /\ visitData = <<>>
    /\ lastVisitInfo = <<>>
    /\ isWaived = FALSE
    /\ attributes \in FnAttributeSets
    /\ attributesRef = attributes
    /\ paymentMethod \in FnModes \cup {IF rev = "A" THEN "null" ELSE "undefined"}
    /\ selectedBillableItem = <<>>
    /\ extraVisitInfo = (IF rev = "A" THEN <<NullInfo(attributes)>> ELSE <<>>)
    /\ prevPublished = "none"
    /\ createCalls = 0
    /\ lastCall = <<>>
    /\ snackbars = 0
    /\ lastSnackbar = "none"
    /\ renderError = FALSE

\* the visit memo applied to one response
FnVisit(v) ==
    /\ visitData = <<>>
    /\ VisitDataResolved(v)

\* the builder applied to any service of the input domain
FnSelect(item) ==
    /\ ~renderError
    /\ Draft = <<>>
    /\ SelectEffect(item)

\* a selection through the Dropdown, which offers lineList
FnPick(item) ==
    /\ Draft = <<>>
    /\ HandleBillingService(item)

\* the classifier and the filter re-derived for another attribute set
FnSetAttributes(a) ==
    /\ Draft = <<>>
    /\ SetAttributes(a)

FnNext ==
    \/ \E v \in FnVisitResponses : FnVisit(v)
    \/ \E item \in FnServices : FnSelect(item)
    \/ \E item \in FnServices : FnPick(item)
    \/ \E a \in FnAttributeSets : FnSetAttributes(a)

SpecFn == FnInit /\ [][FnNext]_vars

-----------------------------------------------------------------------------
(* Properties *)

\* the argument of the last setExtraVisitInfo call carries no commit callback
NoCallback == extraVisitInfo # <<>> /\ extraVisitInfo[1].handleCreateExtraVisitInfo = <<>>

\* the single line item of the draft the host holds
DraftLine == Draft[1].lineItems[1]

\* this step is a call of handleBillingService
SelectionStep == \E item \in AllServices : HandleBillingService(item)

\* C1: in rev A every change of the payment mode and every flip of isNonPaying
\* leaves the host with the null draft and the null commit callback and clears
\* the selected service, and a null draft becomes non-null only by a
\* service-selection event.
C1_ResetOnChange ==
    [][ rev = "A" =>
          /\ (paymentMethod' # paymentMethod \/ isNonPaying' # isNonPaying)
                => (Draft' = <<>> /\ NoCallback' /\ selectedBillableItem' = <<>>)
          /\ (Draft = <<>> /\ Draft' # <<>>) => SelectionStep ]_vars

\* C1 witness: rev A has reset a staged draft after a payment-mode change
C1_Witness ==
    /\ rev = "A"
    /\ prevPublished = "Drafted"
    /\ Draft = <<>>
    /\ selectedBillableItem = <<>>
    /\ paymentMethod = "modeB"
    /\ ~isNonPaying

\* C2: in rev A, whenever the encounter is classified non-paying the host
\* holds the null draft (the lifecycle is in Empty).
C2_NonPayingEmpty ==
    (rev = "A" /\ isNonPaying) => (Kind(extraVisitInfo) = "Empty" /\ NoCallback)

\* C2 witness: a draft was staged and the switch to non-paying emptied it
C2_Witness ==
    /\ rev = "A"
    /\ isNonPaying
    /\ prevPublished = "Drafted"
    /\ Draft = <<>>
    /\ paymentMethod \in Modes
    /\ lineItems # <<>>

\* C3 as stated: in rev A no two consecutive publications to the host are
\* both Drafted.
C3_NoConsecutiveDrafted ==
    rev = "A" => ~(prevPublished = "Drafted" /\ Kind(extraVisitInfo) = "Drafted")

\* C3 amended: in rev A, from Drafted every payment-mode or non-paying change
\* publishes Empty, and a Drafted publication directly after a Drafted one is
\* made only by a service-selection event under an unchanged payment mode and
\* non-paying classification, with a draft built afresh for the selected item.
C3_DraftedToDrafted ==
    [][ (rev = "A" /\ Kind(extraVisitInfo) = "Drafted") =>
          /\ (paymentMethod' # paymentMethod \/ isNonPaying' # isNonPaying)
                => (Kind(extraVisitInfo') = "Empty" /\ prevPublished' = "Drafted")
          /\ (Kind(extraVisitInfo') = "Drafted" /\ extraVisitInfo' # extraVisitInfo)
                => /\ SelectionStep
                   /\ paymentMethod' = paymentMethod
                   /\ isNonPaying' = isNonPaying
                   /\ prevPublished' = "Drafted"
                   /\ selectedBillableItem' # <<>>
                   /\ Draft' = <<CreateBillPayload("A", selectedBillableItem'[1],
                                     paymentMethod, cashPoints, FALSE)>> ]_vars

\* C3 witness: two selections in a row, the second replacing the first draft
C3_Witness ==
    /\ rev = "A"
    /\ prevPublished = "Drafted"
    /\ Kind(extraVisitInfo) = "Drafted"
    /\ selectedBillableItem = <<S2>>
    /\ DraftLine.billableService = "s2"

\* C4 as stated: a non-null draft held by the host references a service of
\* the current catalog filter result.
C4_DraftInLineList ==
    Draft # <<>> =>
        \E i \in 1..Len(lineList) : lineList[i].uuid = DraftLine.billableService

\* C5 as stated: when the visit lookup resolves and the waiver flag turns
\* true while a draft is staged, the null draft is published.
C5_WaiverFlipInvalidates ==
    [][ (rev = "B" /\ Draft # <<>> /\ ~isWaived /\ isWaived') => Draft' = <<>> ]_vars

\* the end-to-end case of C6: last visit 3 days ago, not non-paying, payment
\* mode modeA, and S2 (price "15.00", uuid "pc", for modeA) is selected
C6_Case ==
    /\ visitData = <<VisitAgo(3 * DayMs)>>
    /\ ~isNonPaying
    /\ paymentMethod = "modeA"
    /\ HandleBillingService(S2)

C6_Line(amount) ==
    /\ Draft # <<>>
    /\ Len(Draft[1].lineItems) = 1
    /\ DraftLine.billableService = "s2"
    /\ DraftLine.price = amount
    /\ DraftLine.priceUuid = "pc"
    /\ DraftLine.paymentStatus = "PENDING"
    /\ DraftLine.lineItemOrder = 0

\* C6 as stated: on both revisions the published line item is
\* { S2, "15.00", "pc", "PENDING", 0 }.
C6_EndToEnd15 ==
    [][ C6_Case => C6_Line("15.00")' ]_vars

\* C6 amended: the published line item is { S2, price, "pc", "PENDING", 0 }
\* with price "15.00" in rev A and "0.000" in rev B, where the visit 3 days
\* ago sets the waiver flag.
C6_EndToEnd ==
    [][ C6_Case => C6_Line(IF rev = "B" THEN "0.000" ELSE "15.00")' ]_vars

\* C6 witness: rev B has published the waived line item for S2
C6_Witness ==
    /\ rev = "B"
    /\ visitData = <<VisitAgo(3 * DayMs)>>
    /\ isWaived
    /\ paymentMethod = "modeA"
    /\ C6_Line("0.000")

\* this step is one invocation of the commit callback
CommitStep == createCalls' = createCalls + 1

\* C9: a commit whose createPatientBill call fails makes no setExtraVisitInfo
\* call and leaves the host's draft and callback as they were; every commit
\* submits the payload bound in the callback the host holds, so invoking the
\* callback again after the failure submits the identical payload.
C9_FailedCommitKeepsDraft ==
    [][ CommitStep =>
          /\ Kind(extraVisitInfo) = "Drafted"
          /\ lastCall'[1].payload = extraVisitInfo[1].handleCreateExtraVisitInfo[1].bound
          /\ lastCall'[1].payload = Draft[1]
          /\ ~lastCall'[1].ok =>
                /\ extraVisitInfo' = extraVisitInfo
                /\ prevPublished' = prevPublished
                /\ lastSnackbar' = "error"
          /\ (lastCall # <<>> /\ ~lastCall[1].ok
                /\ lastCall[1].payload = extraVisitInfo[1].handleCreateExtraVisitInfo[1].bound)
                => lastCall'[1].payload = lastCall[1].payload ]_vars

\* C9 witness: a failed commit was retried and failed again, the draft is
\* still staged
C9_Witness ==
    /\ createCalls = 2
    /\ lastCall # <<>>
    /\ ~lastCall[1].ok
    /\ Kind(extraVisitInfo) = "Drafted"
    /\ Draft[1] = lastCall[1].payload

\* the fetched entry has no period, no period.start or an unparseable start
BadStart(vd) ==
    /\ ~NoEntry(vd)
    /\ (~vd[1].entry[1].hasPeriod \/ vd[1].entry[1].start.kind # "date")

\* C10 as stated: for a missing or malformed start timestamp no render
\* throws and the result is the absent value (null lastVisitInfo, no waiver).
C10_BadStartIsAbsent ==
    BadStart(visitData) => (~renderError /\ lastVisitInfo = <<>> /\ ~isWaived)

\* C7: in rev B the waiver flag is true for every visit start at most 7*24
\* hours from now, false from 7 days plus 1 second on, and false without a
\* visit entry.
C7_WaiverWindow ==
    (rev = "B" /\ ~renderError) =>
        IF NoEntry(visitData) THEN ~isWaived
        ELSE LET start == visitData[1].entry[1].start
                 dist == IF start.ms <= Now THEN Now - start.ms ELSE start.ms - Now
             IN  start.kind = "date" =>
                    /\ dist <= 7 * 24 * 3600000 => isWaived
                    /\ dist >= 7 * 24 * 3600000 + 1000 => ~isWaived

\* C7 witness: a visit exactly 7*24 hours ago is waived
C7_Witness ==
    /\ rev = "B"
    /\ visitData = <<VisitAgo(7 * 24 * 3600000)>>
    /\ isWaived

\* C8: in rev B every selection builds a line item whose price is "0.000"
\* when the waiver flag is true, else the resolved price's amount, and "0.00"
\* when the selected service has no price.
C8_WaivedPrice ==
    [][ \A item \in AllServices :
          (rev = "B" /\ FnSelect(item)) =>
              DraftLine'.price =
                  IF isWaived THEN "0.000"
                  ELSE IF Len(item.servicePrices) = 0 THEN "0.00"
                  ELSE PriceForPaymentMode(item, paymentMethod)[1].price ]_vars

\* C8 witness: a waived selection of S1 under modeB, whose resolved price is "20"
C8_Witness ==
    /\ rev = "B"
    /\ isWaived
    /\ paymentMethod = "modeB"
    /\ Draft # <<>>
    /\ DraftLine.billableService = "s1"
    /\ DraftLine.priceUuid = "pb"
    /\ DraftLine.price = "0.000"

\* the configured non-paying value occurs among the current attributes
NonPayingByRule ==
    /\ categoryConcepts # "undefined"
    /\ \E i \in DOMAIN attributes : attributes[i].value = categoryConcepts

\* indexes of the catalog's services with a price for payment mode pm
Eligible(pm) ==
    { i \in DOMAIN lineItems :
        \E k \in DOMAIN lineItems[i].servicePrices :
            lineItems[i].servicePrices[k].paymentMode = pm }

\* C11: with a payment mode set and isNonPaying false, the filter result is
\* the subsequence of the catalog made of the services with at least one
\* price for that mode, in catalog order; no service without prices is in it.
C11_FilterIsSubsequence ==
    (paymentMethod \in FnModes /\ ~NonPayingByRule) =>
        LET keep == Eligible(paymentMethod)
        IN  /\ Len(lineList) = Cardinality(keep)
            /\ \A j \in DOMAIN lineList :
                 /\ \E i \in keep :
                      /\ Cardinality({k \in keep : k <= i}) = j
                      /\ lineList[j] = lineItems[i]
                 /\ Len(lineList[j].servicePrices) > 0

\* C11 witness: under modeB the catalog <<S5, S3, S2, S1>> is narrowed to
\* <<S5, S1>> in rev B, and S1 was picked from it
C11_Witness ==
    /\ rev = "B"
    /\ paymentMethod = "modeB"
    /\ lineItems = <<S5, S3, S2, S1>>
    /\ lineList = <<S5, S1>>
    /\ Draft # <<>>
    /\ DraftLine.billableService = "s1"

\* C12: the filter result is empty whenever the encounter is non-paying
\* (rev A) and whenever the payment mode is unset, and then no selection
\* through the Dropdown takes place.
C12_EmptyFilter ==
    /\ []((NonPayingByRule /\ rev = "A") \/ Falsy(paymentMethod) => lineList = <<>>)
    /\ [][ ((NonPayingByRule /\ rev = "A") \/ Falsy(paymentMethod))
              => ~(\E item \in FnServices : HandleBillingService(item)) ]_vars

\* C12 witness: rev A turned non-paying with a payment mode set and a
\* catalog that has services for it
C12_Witness ==
    /\ rev = "A"
    /\ NonPayingByRule
    /\ prevPublished = "Empty"
    /\ paymentMethod = "modeA"
    /\ Eligible("modeA") # {}
    /\ lineList = <<>>

\* C13: the builder resolves the first price whose payment mode equals the
\* current one, else the first price of the sequence, else none, and no
\* render error arises; S1 gives "20" for modeB and "10" for modeC.
C13_PriceResolution ==
    [][ \A item \in FnServices :
          FnSelect(item) =>
            LET ps == item.servicePrices
                hit == {i \in DOMAIN ps : ps[i].paymentMode = paymentMethod}
                first == CHOOSE i \in hit : \A j \in hit : i <= j
                want == IF hit # {} THEN <<ps[first]>>
                        ELSE IF Len(ps) > 0 THEN <<ps[1]>> ELSE <<>>
            IN  /\ ~renderError'
                /\ DraftLine'.billableService = item.uuid
                /\ DraftLine'.priceUuid = (IF want # <<>> THEN want[1].uuid ELSE "")
                /\ (rev = "A" /\ want # <<>>) => DraftLine'.price = want[1].price
                /\ (rev = "A" /\ item = S1 /\ paymentMethod = "modeB")
                      => DraftLine'.price = "20"
                /\ (rev = "A" /\ item = S1 /\ paymentMethod = "modeC")
                      => DraftLine'.price = "10" ]_vars

\* C13 witness: S1 built under modeC, which none of its prices has
C13_Witness ==
    /\ rev = "A"
    /\ paymentMethod = "modeC"
    /\ Draft # <<>>
    /\ DraftLine.billableService = "s1"
    /\ DraftLine.priceUuid = "pa"
    /\ DraftLine.price = "10"

\* C15: isNonPaying is true exactly when the non-paying value is configured
\* and some current attribute has it as its value, also after each
\* attribute-set change.
C15_NonPayingIff ==
    /\ [](rev = "A" => (isNonPaying <=> NonPayingByRule))
    /\ [][ (rev = "A" /\ attributes' # attributes) =>
             /\ isNonPaying' <=> NonPayingByRule'
             /\ (isNonPaying' # isNonPaying) => Kind(extraVisitInfo') = "Empty" ]_vars

\* C15 witness: the attribute set changed to one whose second attribute has
\* the non-paying value
C15_Witness ==
    /\ rev = "A"
    /\ attributes = <<Attr("category", "paying"), Attr("details", "np")>>
    /\ isNonPaying
    /\ prevPublished = "Empty"

\* C16: every non-null draft the host holds has exactly one line item with
\* quantity 1, lineItemOrder 0 and paymentStatus "PENDING", the status
\* "PENDING" and no payments.
C16_DraftShape ==
    Draft # <<>> =>
        /\ Len(Draft[1].lineItems) = 1
        /\ DraftLine.quantity = 1
        /\ DraftLine.lineItemOrder = 0
        /\ DraftLine.paymentStatus = "PENDING"
        /\ Draft[1].status = "PENDING"
        /\ Draft[1].payments = <<>>

\* C16 witness: a draft is staged and was submitted
C16_Witness ==
    /\ Draft # <<>>
    /\ lastCall # <<>>
    /\ lastCall[1].payload = Draft[1]
    /\ DraftLine.billableService = "s4"

\* C17 as stated: in rev A the attribute set the host was handed last is the
\* component's current attribute set.
C17_HostAttributesCurrent ==
    (rev = "A" /\ extraVisitInfo # <<>>) => extraVisitInfo[1].attributes = attributes

\* this step made a call of setExtraVisitInfo that the host can tell
PublishStep == extraVisitInfo' # extraVisitInfo \/ prevPublished' # prevPublished

\* what does hold in rev A: every setExtraVisitInfo call hands over the
\* attribute set current at the time of the call, and the host's copy is
\* refreshed only by such a call (a payment-mode change, a flip of
\* isNonPaying, a service selection), not by a mere attribute change.
PublishedAttributesCurrent ==
    [][ rev = "A" =>
          /\ PublishStep => extraVisitInfo'[1].attributes = attributes'
          /\ ~PublishStep => extraVisitInfo'[1].attributes = extraVisitInfo[1].attributes
          /\ (attributes' # attributes /\ isNonPaying' = isNonPaying) => ~PublishStep ]_vars

\* the flip to non-paying published the new attribute set after a draft
\* had been staged under another one
PublishedAttributesCurrent_Witness ==
    /\ rev = "A"
    /\ prevPublished = "Drafted"
    /\ attributes = <<Attr("category", "np")>>
    /\ extraVisitInfo[1].attributes = attributes
    /\ Draft = <<>>

\* C18: in rev A the price and priceUuid of a staged draft are those of a
\* price of the selected service whose payment mode is the current one.
C18_PriceMatchesMode ==
    (rev = "A" /\ Draft # <<>>) =>
        /\ selectedBillableItem # <<>>
        /\ selectedBillableItem[1].uuid = DraftLine.billableService
        /\ \E k \in DOMAIN selectedBillableItem[1].servicePrices :
              LET p == selectedBillableItem[1].servicePrices[k]
              IN  /\ p.paymentMode = paymentMethod
                  /\ p.price = DraftLine.price
                  /\ p.uuid = DraftLine.priceUuid

\* C18 witness: S4, whose first price has no payment mode, is staged under
\* modeB with its modeB price
C18_Witness ==
    /\ rev = "A"
    /\ paymentMethod = "modeB"
    /\ Draft # <<>>
    /\ selectedBillableItem = <<S4>>
    /\ DraftLine.priceUuid = "pe"
    /\ DraftLine.price = "7.50"

\* C19: each commit invocation makes exactly one createPatientBill call with
\* the payload bound in the callback and then exactly one notification,
\* success exactly when the call succeeded; nothing else calls
\* createPatientBill or notifies, so a failure is not retried.
C19_OneCallOneNotice ==
    [][ /\ createCalls' \in {createCalls, createCalls + 1}
        /\ snackbars' - snackbars = createCalls' - createCalls
        /\ createCalls' = createCalls => (lastCall' = lastCall /\ lastSnackbar' = lastSnackbar)
        /\ createCalls' = createCalls + 1 =>
              /\ extraVisitInfo # <<>>
              /\ extraVisitInfo[1].handleCreateExtraVisitInfo # <<>>
              /\ lastCall'[1].payload = extraVisitInfo[1].handleCreateExtraVisitInfo[1].bound
              /\ lastSnackbar' = (IF lastCall'[1].ok THEN "success" ELSE "error") ]_vars

\* C19 witness: a failed commit followed by a successful one
C19_Witness ==
    /\ createCalls = 2
    /\ snackbars = 2
    /\ lastCall # <<>>
    /\ lastCall[1].ok
    /\ lastSnackbar = "success"

\* C14: the visit facts the component holds are never those of another
\* patient: whatever visitData a render sees was returned by the lookup of
\* the current patientUuid, also after a response for a superseded
\* patientUuid has arrived, and lastVisitInfo / isWaived are the memo of
\* that visitData
C14_NoStaleVisitFacts ==
    /\ visitDataFor \in {"none", patientUuid}
    /\ (visitData = <<>>) = (visitDataFor = "none")
    /\ ~renderError =>
          /\ lastVisitInfo = (IF rev = "A" THEN ComputeLastVisitInfo(visitData) ELSE <<>>)
          /\ isWaived = (IF rev = "B" THEN ComputeIsWaived(visitData) ELSE FALSE)

\* the prop has moved to patient-2, whose lookup found no visit; the
\* response for patient-1, a visit 3 days ago, arrived afterwards and sits
\* in the cache, and no waiver is granted
C14_Witness ==
    /\ rev = "B"
    /\ patientUuid = "patient-2"
    /\ lookups["patient-1"] = "late"
    /\ CachedData(swrCache[SwrKey("patient-1")]) = <<VisitAgo(3 * DayMs)>>
    /\ visitData = <<EmptyBundle>>
    /\ visitDataFor = "patient-2"
    /\ ~isWaived
    /\ ~renderError

====
